---- MODULE Spec2Model ----
(***************************************************************************)
(* A model of the chat relay (app/api/chat.py), its request schema         *)
(* (app/schemas/chat.py) and the error envelope layer                      *)
(* (app/core/exceptions.py, registered in app/main.py).                    *)
(*                                                                         *)
(* Python values are modelled by what the code reads of them:              *)
(*   - None of an Optional[str] is the string None below;                  *)
(*   - a str is a TLA+ string, f-strings and join are \o;                  *)
(*   - a JSON payload is a tagged record (JNull, JStr, JObj);              *)
(*   - an exception is a record with its class name and attributes.        *)
(* The timestamp that create_error_response stamps is left out: no         *)
(* handler reads it and it differs from call to call.                      *)
(***************************************************************************)
EXTENDS Integers, Sequences, FiniteSets, TLC

VARIABLES
    pc,        \* per request: where its handling stands
    body,      \* per request: the raw request as received (path and JSON keys)
    request,   \* per request: the validated ChatCompletionRequest
    provider,  \* per request: what ai_chat_service does for the call made
    calls,     \* per request: how often each provider operation was invoked
    pos,       \* per request: provider events consumed by generate()
    frames,    \* per request: the SSE frames written to the response body
    response,  \* per request: the HTTP response (status and content)
    held,      \* per request: the provider event generate() holds, if any
    db,        \* per request: the session get_db yielded (0: none yet)
    sessions,  \* the Session objects SessionLocal() made, in order
    exited,    \* per request: whether get_db ran to its end
    exc,       \* handler harness: the exception handed to a handler
    environ,   \* the process environment's ENVIRONMENT variable
    hrequest,  \* handler harness: the request handed to a handler
    handler,   \* handler harness: the handler that was called
    hresponse  \* handler harness: the JSONResponse the handler returned

vars == <<pc, body, request, provider, calls, pos, frames, response,
          held, db, sessions, exited,
          exc, environ, hrequest, handler, hresponse>>

sessionVars == <<db, sessions, exited>>
relayVars == <<pc, body, request, provider, calls, pos, frames, response,
               held, sessionVars>>
harnessVars == <<exc, hrequest, handler, hresponse>>

(***************************************************************************)
(* Bounds of the model.                                                    *)
(***************************************************************************)
MaxEvents == 3
MaxErrors == 2

\* The longest provider event sequence when two requests run concurrently.
MaxConcEvents == 2

(***************************************************************************)
(* Python values.                                                          *)
(***************************************************************************)
None == "None"
Unset == "<unset>"

\* bool(s) of an Optional[str]: None and "" are falsy.
StrTruthy(s) == s # None /\ s # ""

\* `a or b` on Optional[str] operands.
StrOr(a, b) == IF StrTruthy(a) THEN a ELSE b

JNull == [t |-> "null", s |-> "", items |-> <<>>]
JStr(s) == [t |-> "string", s |-> s, items |-> <<>>]
JObj(items) == [t |-> "object", s |-> "", items |-> items]

\* bool(v) of a payload: None, "" and {} are falsy.
Truthy(v) ==
    CASE v.t = "null" -> FALSE
      [] v.t = "string" -> v.s # ""
      [] v.t = "object" -> v.items # <<>>

Quote(s) == "\"" \o s \o "\""

RECURSIVE JoinItems(_)
JoinItems(items) ==
    IF items = <<>> THEN ""
    ELSE Quote(items[1][1]) \o ": " \o Quote(items[1][2])
         \o (IF Len(items) > 1 THEN ", " \o JoinItems(Tail(items)) ELSE "")

\* json.dumps with its default separators.
json_dumps(v) ==
    CASE v.t = "null" -> "null"
      [] v.t = "string" -> Quote(v.s)
      [] v.t = "object" -> "{" \o JoinItems(v.items) \o "}"

(***************************************************************************)
(* Exceptions.  A record holds the class name and the attributes the       *)
(* class's __init__ sets.                                                  *)
(***************************************************************************)
\* The classes of core/exceptions.py and their bases, nearest first.
Bases(cls) ==
    CASE cls \in {"ValidationException", "AuthenticationException",
                  "AuthorizationException", "NotFoundException",
                  "ConflictException"}
           -> <<"BusinessException", "HTTPException", "Exception">>
      [] cls = "BusinessException" -> <<"HTTPException", "Exception">>
      [] cls = "HTTPException" -> <<"Exception">>
      [] cls = "Exception" -> <<>>
      [] OTHER -> <<"Exception">>

Mro(cls) == <<cls>> \o Bases(cls)

isinstance(e, cls) == \E i \in 1..Len(Mro(e.cls)) : Mro(e.cls)[i] = cls

HTTPException(status_code, detail) ==
    [cls |-> "HTTPException", status_code |-> status_code, detail |-> detail]

BusinessException(cls, status_code, detail, error_code, field) ==
    [cls |-> cls, status_code |-> status_code, detail |-> detail,
     error_code |-> error_code, field |-> field]

NotFoundException(detail) ==
    BusinessException("NotFoundException", 404, detail, "NOT_FOUND", None)

ValidationException(detail, field) ==
    BusinessException("ValidationException", 422, detail, "VALIDATION_ERROR", field)

ConflictException(detail) ==
    BusinessException("ConflictException", 409, detail, "CONFLICT", None)

PlainException(cls, msg) == [cls |-> cls, msg |-> msg]

\* RequestValidationError(errors, body=body): the body is the one received.
RequestValidationError(errors, b) ==
    [cls |-> "RequestValidationError", errors |-> errors, body |-> b]

\* type(exc).__name__
TypeName(e) == e.cls

\* str(exc): an HTTPException prints "<status>: <detail>", any other class
\* here prints its message.
Str(e) ==
    IF isinstance(e, "HTTPException")
    THEN ToString(e.status_code) \o ": " \o e.detail
    ELSE e.msg

(***************************************************************************)
(* The error envelope.                                                     *)
(***************************************************************************)
ErrorDetail(type, message, field, code) ==
    [type |-> type, message |-> message, field |-> field, code |-> code]

\* Optional[List[ErrorDetail]]: NoDetails is None, Some(l) is the list l.
NoDetails == <<>>
Some(l) == <<l>>

\* `details or []`
DetailsOrEmpty(details) ==
    IF details = NoDetails THEN <<>> ELSE details[1]

\* A faulty variant: the request's path is left out of the envelope.
create_error_response_pathless(req, status_code, error, message, details, request_id) ==
    [success |-> FALSE,
     error |-> error,
     message |-> message,
     details |-> DetailsOrEmpty(details),
     status_code |-> status_code,
     path |-> None,
     request_id |-> request_id]

create_error_response(req, status_code, error, message, details, request_id) ==
    [success |-> FALSE,
     error |-> error,
     message |-> message,
     details |-> DetailsOrEmpty(details),
     status_code |-> status_code,
     path |-> req.path,
     request_id |-> request_id]

JSONResponse(status_code, content) ==
    [kind |-> "json_error", status |-> status_code, content |-> content]

\* A faulty variant: the table without its 405 and 409 rows.
error_type_map_short(status_code) ==
    CASE status_code = 400 -> "BAD_REQUEST"
      [] status_code = 401 -> "UNAUTHORIZED"
      [] status_code = 403 -> "FORBIDDEN"
      [] status_code = 404 -> "NOT_FOUND"
      [] status_code = 422 -> "UNPROCESSABLE_ENTITY"
      [] status_code = 500 -> "INTERNAL_SERVER_ERROR"
      [] OTHER -> "HTTP_ERROR"

error_type_map(status_code) ==
    CASE status_code = 400 -> "BAD_REQUEST"
      [] status_code = 401 -> "UNAUTHORIZED"
      [] status_code = 403 -> "FORBIDDEN"
      [] status_code = 404 -> "NOT_FOUND"
      [] status_code = 405 -> "METHOD_NOT_ALLOWED"
      [] status_code = 409 -> "CONFLICT"
      [] status_code = 422 -> "UNPROCESSABLE_ENTITY"
      [] status_code = 500 -> "INTERNAL_SERVER_ERROR"
      [] OTHER -> "HTTP_ERROR"

\* A faulty variant: a detail only when the field is set.
BusinessDetailsFieldOnly(e) ==
    IF StrTruthy(e.field)
    THEN <<ErrorDetail("business_error", e.detail, e.field, e.error_code)>>
    ELSE <<>>

BusinessDetails(e) ==
    IF StrTruthy(e.field) \/ StrTruthy(e.error_code)
    THEN <<ErrorDetail("business_error", e.detail, e.field, e.error_code)>>
    ELSE <<>>

http_exception_handler(req, e) ==
    IF isinstance(e, "BusinessException")
    THEN JSONResponse(e.status_code,
             create_error_response(req, e.status_code,
                 StrOr(e.error_code, "BUSINESS_ERROR"), e.detail,
                 Some(BusinessDetails(e)), None))
    ELSE JSONResponse(e.status_code,
             create_error_response(req, e.status_code,
                 error_type_map(e.status_code), e.detail, NoDetails, None))

\* A segment of a validator location is a key (str) or an index (int).
Key(s) == [kind |-> "str", s |-> s, i |-> 0]
Index(i) == [kind |-> "int", s |-> "", i |-> i]

\* str(loc) of one segment.
SegStr(seg) == IF seg.kind = "int" THEN ToString(seg.i) ELSE seg.s

RECURSIVE DotJoin(_)
DotJoin(segs) ==
    IF segs = <<>> THEN ""
    ELSE SegStr(segs[1])
         \o (IF Len(segs) > 1 THEN "." \o DotJoin(Tail(segs)) ELSE "")

\* A faulty variant: the leading segment is kept.
field_name_keep_root(loc) ==
    IF Len(loc) > 1 THEN DotJoin(loc) ELSE None

\* ".".join(str(loc) for loc in error["loc"][1:]) if len(error["loc"]) > 1 else None
field_name(loc) ==
    IF Len(loc) > 1 THEN DotJoin(Tail(loc)) ELSE None

ValidationDetail(error) ==
    ErrorDetail("validation_error", error.msg, field_name(error.loc), error.type)

validation_exception_handler(req, e) ==
    JSONResponse(422,
        create_error_response(req, 422, "VALIDATION_ERROR",
            "request data validation failed",
            Some([i \in 1..Len(e.errors) |-> ValidationDetail(e.errors[i])]),
            None))

\* A faulty variant: every mode but "production" counts as development.
is_development_unless_production(env) == env # "production"

\* os.getenv("ENVIRONMENT", "development") == "development"
is_development(env) ==
    (IF env = Unset THEN "development" ELSE env) = "development"

GenericMessage == "internal server error, retry later"

general_exception_handler(req, e, env) ==
    IF is_development(env)
    THEN JSONResponse(500,
             create_error_response(req, 500, "INTERNAL_SERVER_ERROR",
                 TypeName(e) \o ": " \o Str(e),
                 Some(<<ErrorDetail("system_error", Str(e), None, TypeName(e))>>),
                 None))
    ELSE JSONResponse(500,
             create_error_response(req, 500, "INTERNAL_SERVER_ERROR",
                 GenericMessage, Some(<<>>), None))

(***************************************************************************)
(* Dispatch of a raised exception to the handlers registered on the app:   *)
(* the handler of the nearest class of the exception's MRO.                *)
(***************************************************************************)
RegisteredHandlers == {"HTTPException", "RequestValidationError", "Exception"}

RECURSIVE lookup_handler(_)
lookup_handler(mro) ==
    IF mro[1] \in RegisteredHandlers THEN mro[1] ELSE lookup_handler(Tail(mro))

handle_exception(req, e, env) ==
    CASE lookup_handler(Mro(e.cls)) = "HTTPException"
           -> http_exception_handler(req, e)
      [] lookup_handler(Mro(e.cls)) = "RequestValidationError"
           -> validation_exception_handler(req, e)
      [] OTHER -> general_exception_handler(req, e, env)

(***************************************************************************)
(* The request schema and its validation.                                  *)
(***************************************************************************)
API_V1_STR == "/api/v1"

Roles == {"system", "user", "assistant", "function", "tool"}

Missing(name) ==
    [type |-> "missing", loc |-> <<Key("body"), Key(name)>>,
     msg |-> "Field required"]

RoleError(i) ==
    [type |-> "literal_error",
     loc |-> <<Key("body"), Key("messages"), Index(i - 1), Key("role")>>,
     msg |-> "Input should be 'system', 'user', 'assistant', 'function' or 'tool'"]

\* ChatMessage.role is a Literal: one error per message with another role.
RECURSIVE RoleErrors(_, _)
RoleErrors(messages, i) ==
    IF i > Len(messages) THEN <<>>
    ELSE (IF messages[i].role \in Roles THEN <<>> ELSE <<RoleError(i)>>)
         \o RoleErrors(messages, i + 1)

\* Field(...) makes model and messages required; nothing bounds their length.
ChatCompletionRequestErrors(json) ==
    (IF "model" \in DOMAIN json THEN <<>> ELSE <<Missing("model")>>)
    \o (IF "messages" \in DOMAIN json
        THEN RoleErrors(json.messages, 1)
        ELSE <<Missing("messages")>>)

\* /colposcopy also declares files: List[UploadFile] = File(...).
ValidationErrors(b) ==
    ChatCompletionRequestErrors(b.json)
    \o (IF b.path = "/colposcopy" /\ ~b.files THEN <<Missing("files")>> ELSE <<>>)

\* A faulty variant: streaming is the default.
StreamDefaultOn == TRUE

\* stream: Optional[bool] = Field(False)
StreamDefault == FALSE

ChatCompletionRequest(json) ==
    [model |-> json.model,
     messages |-> json.messages,
     stream |-> IF "stream" \in DOMAIN json THEN json.stream ELSE StreamDefault]

(***************************************************************************)
(* The streaming relay: what generate() does with one provider event.      *)
(***************************************************************************)
DoneFrame == "data: [DONE]\n\n"

\* A faulty variant: the payload is not looked at.
IsMessageAnyPayload(event) == event.type = "message"

IsMessage(event) == event.type = "message" /\ Truthy(event.data)

\* The frames generate() yields for one event.
Yielded(event) ==
    IF IsMessage(event)
    THEN <<"data: " \o json_dumps(event.data) \o "\n\n">>
    ELSE IF event.type = "done" THEN <<DoneFrame>> ELSE <<>>

\* A faulty variant: the loop is never left early.
BreaksNever(event) == FALSE

\* Whether generate() leaves its loop after the event.
Breaks(event) == ~IsMessage(event) /\ event.type = "done"

StreamingResponse ==
    [kind |-> "stream", status |-> 200, media_type |-> "text/plain",
     content_type |-> "text/plain; charset=utf-8",
     cache_control |-> "no-cache", connection |-> "keep-alive"]

(***************************************************************************)
(* Inputs: the requests clients send and what the provider does.           *)
(***************************************************************************)
Requests == {"r1", "r2"}

EmptyJson == [k \in {} |-> ""]

UserMessage == [role |-> "user", content |-> "hi"]
BadRoleMessage == [role |-> "invalid_role", content |-> "hi"]

JsonBodies ==
    { m @@ g @@ s :
        m \in {EmptyJson, "model" :> "", "model" :> "gpt-4"},
        g \in {EmptyJson, "messages" :> <<>>, "messages" :> <<UserMessage>>,
               "messages" :> <<BadRoleMessage>>},
        s \in {EmptyJson, "stream" :> TRUE, "stream" :> FALSE} }

Bodies ==
    { [path |-> "/completions", json |-> j, files |-> FALSE] : j \in JsonBodies }
    \cup { [path |-> "/colposcopy", json |-> j, files |-> f] :
             j \in JsonBodies, f \in BOOLEAN }

NoBody == [path |-> "", json |-> EmptyJson, files |-> FALSE]

\* The Request object a handler gets: it reads request.url.path only.
RequestOf(b) == [path |-> API_V1_STR \o b.path]

Events ==
    { [type |-> "message", data |-> JObj(<<<<"content", "a">>>>)],
      [type |-> "message", data |-> JObj(<<<<"content", "b">>>>)],
      [type |-> "message", data |-> JObj(<<>>)],
      [type |-> "message", data |-> JNull],
      [type |-> "message", data |-> JStr("")],
      [type |-> "done", data |-> JNull],
      [type |-> "done", data |-> JObj(<<<<"content", "a">>>>)],
      [type |-> "tool_call", data |-> JObj(<<<<"name", "search">>>>)] }

RECURSIVE SeqsUpTo(_, _)
SeqsUpTo(S, n) ==
    IF n = 0 THEN {<<>>}
    ELSE SeqsUpTo(S, n - 1)
         \cup { Append(q, x) : q \in { p \in SeqsUpTo(S, n - 1) : Len(p) = n - 1 },
                               x \in S }

ProviderErrors ==
    { PlainException("ValueError", "boom"),
      PlainException("RuntimeError", ""),
      HTTPException(503, "upstream unavailable"),
      NotFoundException("patient does not exist"),
      ValidationException("bad age", "age"),
      ConflictException("already there"),
      BusinessException("BusinessException", 400, "bad patient", None, "patient_id") }

StreamErrors == { PlainException("ValueError", "boom") }

Completions ==
    { [id |-> "chatcmpl-1", object |-> "chat.completion", model |-> "gpt-4",
       choices |-> <<"hello">>],
      [id |-> "chatcmpl-2", object |-> "chat.completion", model |-> "gpt-4",
       choices |-> <<>>] }

NoException == PlainException("", "")

\* chat_completion(db, request): returns a completion or raises.
SingleShotOutcomes ==
    { [kind |-> "return", result |-> c, exc |-> NoException] : c \in Completions }
    \cup { [kind |-> "raise", result |-> CHOOSE c \in Completions : TRUE, exc |-> e] :
             e \in ProviderErrors }

\* chat_completion_stream(db, request): a finite event sequence that then
\* ends or raises.
StreamOutcomesOf(events, n) ==
    { [kind |-> "stream", events |-> q, ending |-> "end", exc |-> NoException] :
        q \in SeqsUpTo(events, n) }
    \cup { [kind |-> "stream", events |-> q, ending |-> "raise", exc |-> e] :
             q \in SeqsUpTo(events, n), e \in StreamErrors }

StreamOutcomes == StreamOutcomesOf(Events, MaxEvents)

NoProvider == [kind |-> "none"]
NoRequest == [model |-> "", messages |-> <<>>, stream |-> FALSE]
NoResponse == [kind |-> "none"]
NoCalls == [single |-> 0, stream |-> 0]

\* SessionLocal(): a new Session, on which close() was not called yet.
SessionLocal == [closes |-> 0]

(***************************************************************************)
(* The relay: one request from arrival to the end of its response.  The    *)
(* routes /colposcopy and /completions run the same statements; the route  *)
(* of a request is body.path.                                              *)
(***************************************************************************)
RelayInit ==
    /\ pc = [r \in Requests |-> "idle"]
    /\ body = [r \in Requests |-> NoBody]
    /\ request = [r \in Requests |-> NoRequest]
    /\ provider = [r \in Requests |-> NoProvider]
    /\ calls = [r \in Requests |-> NoCalls]
    /\ pos = [r \in Requests |-> 0]
    /\ frames = [r \in Requests |-> <<>>]
    /\ response = [r \in Requests |-> NoResponse]
    /\ held = [r \in Requests |-> <<>>]
    /\ db = [r \in Requests |-> 0]
    /\ sessions = <<>>
    /\ exited = [r \in Requests |-> FALSE]

HarnessIdle ==
    /\ exc = NoException
    /\ hrequest = RequestOf(NoBody)
    /\ handler = ""
    /\ hresponse = NoResponse

Init == RelayInit /\ HarnessIdle /\ environ = Unset

\* A client sends a request.
Receive_from(r, bodies) ==
    /\ pc[r] = "idle"
    /\ \E b \in bodies : body' = [body EXCEPT ![r] = b]
    /\ pc' = [pc EXCEPT ![r] = "received"]
    /\ UNCHANGED <<request, provider, calls, pos, frames, response>>
    /\ UNCHANGED <<held, sessionVars, harnessVars, environ>>

Receive(r) == Receive_from(r, Bodies)

\* The request's parameters are resolved: Depends(get_db) makes a session of
\* its own for the request and yields it, and the body is validated; a
\* failure is raised as RequestValidationError and answered by its handler.
Validate(r) ==
    /\ pc[r] = "received"
    /\ sessions' = Append(sessions, SessionLocal)
    /\ db' = [db EXCEPT ![r] = Len(sessions) + 1]
    /\ IF ValidationErrors(body[r]) # <<>>
       THEN /\ response' = [response EXCEPT ![r] =
                   handle_exception(RequestOf(body[r]),
                       RequestValidationError(ValidationErrors(body[r]), body[r]),
                       environ)]
            /\ pc' = [pc EXCEPT ![r] = "done"]
            /\ UNCHANGED request
       ELSE /\ request' = [request EXCEPT ![r] = ChatCompletionRequest(body[r].json)]
            /\ pc' = [pc EXCEPT ![r] = "endpoint"]
            /\ UNCHANGED response
    /\ UNCHANGED <<body, provider, calls, pos, frames>>
    /\ UNCHANGED <<held, exited, harnessVars, environ>>

\* A faulty variant: close() is reached only when nothing was raised.
ClosesOnSuccess(raised) == ~raised

\* get_db's `finally: db.close()`: close() is called however the request
\* ended.
ClosesOnExit(raised) == TRUE

\* The request ended in an exception.
Raised(r) == response[r].kind = "json_error" \/ pc[r] = "aborted"

\* get_db runs to its end: after the endpoint returned its response (for a
\* streaming response that is before or after the body is sent, as the
\* framework has it) or after the request failed.
get_db_exit(r) ==
    /\ pc[r] \in {"streaming", "closed", "aborted", "done"}
    /\ db[r] # 0
    /\ ~exited[r]
    /\ sessions' = [sessions EXCEPT ![db[r]].closes =
           IF ClosesOnExit(Raised(r)) THEN @ + 1 ELSE @]
    /\ exited' = [exited EXCEPT ![r] = TRUE]
    /\ UNCHANGED <<pc, body, request, provider, calls, pos, frames, response>>
    /\ UNCHANGED <<held, db, harnessVars, environ>>

\* A faulty variant: the exception is raised again as it is.
EndpointErrorReraised(e) == e

\* A faulty variant: an HTTPException passes, any other becomes the 500.
EndpointErrorKeepsHttp(e) ==
    IF isinstance(e, "HTTPException") THEN e ELSE HTTPException(500, Str(e))

\* except Exception as e: raise HTTPException(status_code=500, detail=str(e))
EndpointError(e) == HTTPException(500, Str(e))

\* chat_completions up to its first suspension: a streaming request returns
\* the StreamingResponse around generate(), any other awaits chat_completion.
chat_completions_with(r, outcomes) ==
    /\ pc[r] = "endpoint"
    /\ IF request[r].stream
       THEN /\ response' = [response EXCEPT ![r] = StreamingResponse]
            /\ pc' = [pc EXCEPT ![r] = "streaming"]
            /\ UNCHANGED <<provider, calls>>
       ELSE /\ \E outcome \in outcomes :
                   provider' = [provider EXCEPT ![r] = outcome]
            /\ calls' = [calls EXCEPT ![r].single = @ + 1]
            /\ pc' = [pc EXCEPT ![r] = "await"]
            /\ UNCHANGED response
    /\ UNCHANGED <<body, request, pos, frames>>
    /\ UNCHANGED <<held, sessionVars, harnessVars, environ>>

chat_completions(r) == chat_completions_with(r, SingleShotOutcomes)

\* chat_completions resumed: the result is returned as it is, an exception
\* is caught and raised again as HTTPException(500, str(e)).
chat_completions_resume(r) ==
    /\ pc[r] = "await"
    /\ response' = [response EXCEPT ![r] =
           IF provider[r].kind = "return"
           THEN [kind |-> "json", status |-> 200, content |-> provider[r].result]
           ELSE handle_exception(RequestOf(body[r]),
                    EndpointError(provider[r].exc), environ)]
    /\ pc' = [pc EXCEPT ![r] = "done"]
    /\ UNCHANGED <<body, request, provider, calls, pos, frames>>
    /\ UNCHANGED <<held, sessionVars, harnessVars, environ>>

\* The response body starts: generate() calls chat_completion_stream.
generate_start_with(r, outcomes) ==
    /\ pc[r] = "streaming"
    /\ \E outcome \in outcomes :
           provider' = [provider EXCEPT ![r] = outcome]
    /\ calls' = [calls EXCEPT ![r].stream = @ + 1]
    /\ pc' = [pc EXCEPT ![r] = "iterating"]
    /\ UNCHANGED <<body, request, pos, frames, response>>
    /\ UNCHANGED <<held, sessionVars, harnessVars, environ>>

generate_start(r) == generate_start_with(r, StreamOutcomes)

\* One turn of generate()'s loop: the next provider event is consumed.
generate_next(r) ==
    /\ pc[r] = "iterating"
    /\ pos[r] < Len(provider[r].events)
    /\ pos' = [pos EXCEPT ![r] = @ + 1]
    /\ frames' = [frames EXCEPT ![r] = @ \o Yielded(provider[r].events[pos[r] + 1])]
    /\ pc' = [pc EXCEPT ![r] =
           IF Breaks(provider[r].events[pos[r] + 1]) THEN "closed" ELSE "iterating"]
    /\ UNCHANGED <<body, request, provider, calls, response>>
    /\ UNCHANGED <<held, sessionVars, harnessVars, environ>>

\* A faulty variant: generate() catches the provider's exception and ends
\* the body with a [DONE] frame.
generate_end_swallows(r) ==
    /\ pc[r] = "iterating"
    /\ held[r] = <<>>
    /\ pos[r] = Len(provider[r].events)
    /\ pc' = [pc EXCEPT ![r] = "closed"]
    /\ frames' = [frames EXCEPT ![r] =
           IF provider[r].ending = "end" THEN @ ELSE Append(@, DoneFrame)]
    /\ UNCHANGED <<body, request, provider, calls, pos, response>>
    /\ UNCHANGED <<held, sessionVars, harnessVars, environ>>

\* The provider's sequence is over: generate() returns and the body is
\* complete, or the provider's exception ends the stream.
generate_end(r) ==
    /\ pc[r] = "iterating"
    /\ held[r] = <<>>
    /\ pos[r] = Len(provider[r].events)
    /\ pc' = [pc EXCEPT ![r] =
           IF provider[r].ending = "end" THEN "closed" ELSE "aborted"]
    /\ UNCHANGED <<body, request, provider, calls, pos, frames, response>>
    /\ UNCHANGED <<held, sessionVars, harnessVars, environ>>

\* A faulty variant: one iterator, the first one made, serves every request.
StreamShared(r) ==
    provider[CHOOSE q \in Requests : provider[q].kind = "stream"].events

\* The events of the iterator generate() made for its own call, from its own
\* db and request.
Stream(r) == provider[r].events

\* The loop turn of generate_next in its two halves, for requests that
\* interleave at their suspension points. First half: `async for` waits
\* for the provider's next event and binds it to `event`.
generate_fetch(r) ==
    /\ pc[r] = "iterating"
    /\ held[r] = <<>>
    /\ pos[r] < Len(Stream(r))
    /\ held' = [held EXCEPT ![r] = <<Stream(r)[pos[r] + 1]>>]
    /\ pos' = [pos EXCEPT ![r] = @ + 1]
    /\ UNCHANGED <<pc, body, request, provider, calls, frames, response>>
    /\ UNCHANGED <<sessionVars, harnessVars, environ>>

\* Second half: the loop body handles `event`: it yields the event's frame,
\* if any, to the response and breaks on a done event.
generate_emit(r) ==
    /\ pc[r] = "iterating"
    /\ held[r] # <<>>
    /\ frames' = [frames EXCEPT ![r] = @ \o Yielded(held[r][1])]
    /\ pc' = [pc EXCEPT ![r] =
           IF Breaks(held[r][1]) THEN "closed" ELSE "iterating"]
    /\ held' = [held EXCEPT ![r] = <<>>]
    /\ UNCHANGED <<body, request, provider, calls, pos, response>>
    /\ UNCHANGED <<sessionVars, harnessVars, environ>>

Relay(r) ==
    \/ Receive(r)
    \/ Validate(r)
    \/ chat_completions(r)
    \/ chat_completions_resume(r)
    \/ generate_start(r)
    \/ generate_next(r)
    \/ generate_end(r)
    \/ get_db_exit(r)

Next == Relay("r1")

Spec == Init /\ [][Next]_vars

(***************************************************************************)
(* Concurrent requests. Both requests move, in any interleaving of their   *)
(* steps, and the stream loop is taken half a turn at a time. The bodies   *)
(* and provider outcomes are a part of those above.                        *)
(***************************************************************************)

ConcBodies ==
    { b \in Bodies :
        /\ b.path = "/completions"
        /\ "model" \in DOMAIN b.json /\ b.json.model = "gpt-4"
        /\ "messages" \in DOMAIN b.json => b.json.messages = <<UserMessage>>
        /\ "stream" \in DOMAIN b.json }

ConcEvents ==
    { e \in Events :
        \/ e.type = "message" /\ e.data \in {JObj(<<<<"content", "a">>>>),
                                              JObj(<<<<"content", "b">>>>)}
        \/ e.type = "done" /\ e.data = JNull }

ConcSingleShotOutcomes ==
    { o \in SingleShotOutcomes :
        \/ o.kind = "return" /\ o.result.choices # <<>>
        \/ o.kind = "raise" /\ o.exc = NotFoundException("patient does not exist") }

\* The provider's sequences as far as generate() draws them: nothing is
\* asked of the iterator after its done event.
ConcStreamOutcomes ==
    { o \in StreamOutcomesOf(ConcEvents, MaxConcEvents) :
        /\ \A i \in 1..(Len(o.events) - 1) : o.events[i].type # "done"
        /\ o.events # <<>> /\ o.events[Len(o.events)].type = "done"
              => o.ending = "end" }

RelayConc(r) ==
    \/ Receive_from(r, ConcBodies)
    \/ Validate(r)
    \/ chat_completions_with(r, ConcSingleShotOutcomes)
    \/ chat_completions_resume(r)
    \/ generate_start_with(r, ConcStreamOutcomes)
    \/ generate_fetch(r)
    \/ generate_emit(r)
    \/ generate_end(r)
    \/ get_db_exit(r)

NextConc == \E r \in Requests : RelayConc(r)

SpecConc == Init /\ [][NextConc]_vars

(***************************************************************************)
(* The handlers called on their own: each handler of core/exceptions.py    *)
(* applied to an exception of the class it is registered for.              *)
(***************************************************************************)
Environments == {Unset, "development", "production", "", "Development"}

ErrorEntries ==
    { [type |-> "missing", loc |-> <<Key("body"), Key("messages")>>,
       msg |-> "Field required"],
      RoleError(1),
      [type |-> "int_parsing", loc |-> <<Key("query"), Key("limit")>>,
       msg |-> "Input should be a valid integer"],
      [type |-> "missing", loc |-> <<Key("body")>>, msg |-> "Field required"],
      [type |-> "value_error", loc |-> <<>>, msg |-> "Value error"] }

BusinessExceptions ==
    { BusinessException("BusinessException", st, "no such patient", code, f) :
        st \in {400, 404, 409},
        code \in {None, "", "NOT_FOUND"},
        f \in {None, "", "patient_id"} }
    \cup { NotFoundException("patient does not exist") }

HttpExceptions ==
    { HTTPException(st, "request refused") :
        st \in {400, 401, 403, 404, 405, 409, 418, 422, 429, 500, 503} }

ValidationExceptions ==
    { RequestValidationError(q, NoBody) : q \in SeqsUpTo(ErrorEntries, MaxErrors) }
    \cup { RequestValidationError(ValidationErrors(b), b) :
             b \in { x \in Bodies : ValidationErrors(x) # <<>> } }

PlainExceptions ==
    { PlainException("ValueError", "boom"),
      PlainException("KeyError", "'choices'"),
      PlainException("RuntimeError", "") }

HarnessInit ==
    /\ RelayInit
    /\ exc \in BusinessExceptions \cup HttpExceptions
               \cup ValidationExceptions \cup PlainExceptions
    /\ environ \in Environments
    /\ hrequest \in { RequestOf(b) : b \in Bodies }
    /\ handler = ""
    /\ hresponse = NoResponse

call_http_exception_handler ==
    /\ handler = ""
    /\ isinstance(exc, "HTTPException")
    /\ hresponse' = http_exception_handler(hrequest, exc)
    /\ handler' = "http_exception_handler"
    /\ UNCHANGED <<relayVars, exc, environ, hrequest>>

call_validation_exception_handler ==
    /\ handler = ""
    /\ isinstance(exc, "RequestValidationError")
    /\ hresponse' = validation_exception_handler(hrequest, exc)
    /\ handler' = "validation_exception_handler"
    /\ UNCHANGED <<relayVars, exc, environ, hrequest>>

call_general_exception_handler ==
    /\ handler = ""
    /\ ~isinstance(exc, "RequestValidationError")
    /\ hresponse' = general_exception_handler(hrequest, exc, environ)
    /\ handler' = "general_exception_handler"
    /\ UNCHANGED <<relayVars, exc, environ, hrequest>>

HarnessNext ==
    \/ call_http_exception_handler
    \/ call_validation_exception_handler
    \/ call_general_exception_handler

SpecHandlers == HarnessInit /\ [][HarnessNext]_vars

(***************************************************************************)
(* Properties of the error envelope layer, checked under SpecHandlers.     *)
(***************************************************************************)
Envelope == hresponse.content

\* The field path the validator's location stands for, written out.
ExpectedField ==
    { <<<<>>, None>>,
      <<<<Key("body")>>, None>>,
      <<<<Key("body"), Key("model")>>, "model">>,
      <<<<Key("body"), Key("messages")>>, "messages">>,
      <<<<Key("body"), Key("files")>>, "files">>,
      <<<<Key("query"), Key("limit")>>, "limit">>,
      <<<<Key("body"), Key("messages"), Index(0), Key("role")>>,
        "messages.0.role">> }

\* C6: validation_exception_handler answers 422 with error VALIDATION_ERROR
\* and one ErrorDetail per validator error, in the validator's order; each
\* detail's field is the location without its leading segment, joined by
\* dots (None for a location of one segment or none).  A body without the
\* required messages field gets exactly one detail whose field is "messages".
C6_ValidationEnvelope ==
    handler = "validation_exception_handler" =>
        /\ hresponse.status = 422
        /\ Envelope.status_code = 422
        /\ Envelope.error = "VALIDATION_ERROR"
        /\ Len(Envelope.details) = Len(exc.errors)
        /\ \A i \in 1..Len(exc.errors) :
             /\ Envelope.details[i].type = "validation_error"
             /\ Envelope.details[i].message = exc.errors[i].msg
             /\ Envelope.details[i].code = exc.errors[i].type
             /\ \E p \in ExpectedField :
                  /\ p[1] = exc.errors[i].loc
                  /\ Envelope.details[i].field = p[2]
        /\ (exc.body # NoBody /\ "messages" \notin DOMAIN exc.body.json) =>
             Cardinality({ i \in 1..Len(Envelope.details) :
                             Envelope.details[i].field = "messages" }) = 1

\* C6 witness: a body that lacks both model and messages was answered with
\* two details, the second for "messages".
C6_Witness ==
    /\ handler = "validation_exception_handler"
    /\ exc.body # NoBody
    /\ DOMAIN exc.body.json = {"stream"}
    /\ Len(Envelope.details) = 2
    /\ Envelope.details[2].field = "messages"

\* An attribute counts as set when it is neither None nor empty.
IsSet(s) == s \notin {None, ""}

\* C8 as first stated: a BusinessException with error_code NOT_FOUND and
\* field patient_id always gets an envelope with status_code 404.
C8_Original ==
    ( /\ handler = "http_exception_handler"
      /\ isinstance(exc, "BusinessException")
      /\ exc.error_code = "NOT_FOUND"
      /\ exc.field = "patient_id" ) =>
        /\ Envelope.status_code = 404
        /\ Envelope.error = "NOT_FOUND"
        /\ Len(Envelope.details) = 1
        /\ Envelope.details[1].field = "patient_id"
        /\ Envelope.details[1].code = "NOT_FOUND"

\* C8 as amended: for a BusinessException the envelope's status_code is the
\* exception's own status_code, so status_code 404, error_code NOT_FOUND and
\* field patient_id give status_code 404, error NOT_FOUND and one detail
\* with that field and code.  In general there is exactly one detail,
\* carrying field and error_code, when either is set to a non-empty value
\* and none otherwise, and error is the error_code, or BUSINESS_ERROR when
\* the error_code is not set.
C8_BusinessEnvelope ==
    (handler = "http_exception_handler" /\ isinstance(exc, "BusinessException")) =>
        /\ hresponse.status = exc.status_code
        /\ Envelope.status_code = exc.status_code
        /\ Envelope.message = exc.detail
        /\ Envelope.error = IF IsSet(exc.error_code) THEN exc.error_code
                            ELSE "BUSINESS_ERROR"
        /\ (IsSet(exc.field) \/ IsSet(exc.error_code)) =>
             Envelope.details =
                 << [type |-> "business_error", message |-> exc.detail,
                     field |-> exc.field, code |-> exc.error_code] >>
        /\ (~IsSet(exc.field) /\ ~IsSet(exc.error_code)) => Envelope.details = <<>>
        /\ ( /\ exc.status_code = 404
             /\ exc.error_code = "NOT_FOUND"
             /\ exc.field = "patient_id" ) =>
             /\ Envelope.status_code = 404
             /\ Envelope.error = "NOT_FOUND"
             /\ Len(Envelope.details) = 1
             /\ Envelope.details[1].field = "patient_id"
             /\ Envelope.details[1].code = "NOT_FOUND"

\* C8 witness: the 404 / NOT_FOUND / patient_id exception was handled.
C8_Witness ==
    /\ handler = "http_exception_handler"
    /\ exc.cls = "BusinessException"
    /\ exc.status_code = 404
    /\ exc.error_code = "NOT_FOUND"
    /\ exc.field = "patient_id"
    /\ Len(Envelope.details) = 1

\* The status to error table as the specification lists it.
StatusErrorTable ==
    { <<400, "BAD_REQUEST">>, <<401, "UNAUTHORIZED">>, <<403, "FORBIDDEN">>,
      <<404, "NOT_FOUND">>, <<405, "METHOD_NOT_ALLOWED">>, <<409, "CONFLICT">>,
      <<422, "UNPROCESSABLE_ENTITY">>, <<500, "INTERNAL_SERVER_ERROR">> }

\* C9: for an HTTP exception that is no BusinessException the envelope's
\* error comes from the fixed table, is HTTP_ERROR for any other status,
\* the details list is empty and the message is the exception's detail.
C9_HttpEnvelope ==
    (handler = "http_exception_handler" /\ ~isinstance(exc, "BusinessException")) =>
        /\ hresponse.status = exc.status_code
        /\ Envelope.status_code = exc.status_code
        /\ \A p \in StatusErrorTable :
             p[1] = exc.status_code => Envelope.error = p[2]
        /\ (\A p \in StatusErrorTable : p[1] # exc.status_code) =>
             Envelope.error = "HTTP_ERROR"
        /\ Envelope.details = <<>>
        /\ Envelope.message = exc.detail

\* C9 witness: a 405 was answered with METHOD_NOT_ALLOWED.
C9_Witness ==
    /\ handler = "http_exception_handler"
    /\ exc.cls = "HTTPException"
    /\ exc.status_code = 405
    /\ Envelope.error = "METHOD_NOT_ALLOWED"

\* Development mode: ENVIRONMENT is unset or is "development".
DevelopmentMode == environ \in {Unset, "development"}

\* What str(exc) and type(exc).__name__ are for the exceptions handed in.
ExpectedText ==
    { <<PlainException("ValueError", "boom"), "ValueError", "boom">>,
      <<PlainException("KeyError", "'choices'"), "KeyError", "'choices'">>,
      <<PlainException("RuntimeError", ""), "RuntimeError", "">>,
      <<NotFoundException("patient does not exist"), "NotFoundException",
        "404: patient does not exist">>,
      <<HTTPException(503, "request refused"), "HTTPException",
        "503: request refused">> }

\* The envelope without the two fields the mode may change.
ModeFree(content) == [content EXCEPT !.message = "", !.details = <<>>]

\* C10: general_exception_handler answers 500 with error
\* INTERNAL_SERVER_ERROR; in development mode the message is the exception's
\* type name and string form and there is one system_error detail; in any
\* other mode the message is the generic one and there are no details, so
\* the response is the same whatever the exception was; message and details
\* are all that differs between the modes.
C10_GeneralEnvelope ==
    handler = "general_exception_handler" =>
        /\ hresponse.status = 500
        /\ Envelope.status_code = 500
        /\ Envelope.error = "INTERNAL_SERVER_ERROR"
        /\ DevelopmentMode =>
             /\ Len(Envelope.details) = 1
             /\ Envelope.details[1].type = "system_error"
             /\ \A p \in ExpectedText :
                  p[1] = exc =>
                      /\ Envelope.message = p[2] \o ": " \o p[3]
                      /\ Envelope.details[1].message = p[3]
                      /\ Envelope.details[1].code = p[2]
        /\ ~DevelopmentMode =>
             /\ Envelope.message = GenericMessage
             /\ Envelope.details = <<>>
             /\ \A e \in PlainExceptions \cup HttpExceptions \cup BusinessExceptions :
                  general_exception_handler(hrequest, e, environ) = hresponse
        /\ \A env \in Environments :
             ModeFree(general_exception_handler(hrequest, exc, env).content)
                 = ModeFree(Envelope)

\* C10 witness: outside development mode, with ENVIRONMENT set to the empty
\* string, a ValueError was answered with the generic message.
C10_Witness ==
    /\ handler = "general_exception_handler"
    /\ environ = ""
    /\ exc = PlainException("ValueError", "boom")
    /\ Envelope.message = GenericMessage

(***************************************************************************)
(* Properties of the relay, checked under Spec.                            *)
(***************************************************************************)
Streaming(r) == provider[r].kind = "stream"

\* The provider events generate() has consumed so far.
Consumed(r) == SubSeq(provider[r].events, 1, pos[r])

\* The index of the first "done" event of q, Len(q) + 1 when it has none.
FirstDone(q) ==
    IF \E i \in 1..Len(q) : q[i].type = "done"
    THEN CHOOSE i \in 1..Len(q) :
             /\ q[i].type = "done"
             /\ \A j \in 1..(i - 1) : q[j].type # "done"
    ELSE Len(q) + 1

\* The index of the first [DONE] frame of fs, Len(fs) + 1 when it has none.
FirstDoneFrame(fs) ==
    IF \E i \in 1..Len(fs) : fs[i] = DoneFrame
    THEN CHOOSE i \in 1..Len(fs) :
             /\ fs[i] = DoneFrame
             /\ \A j \in 1..(i - 1) : fs[j] # DoneFrame
    ELSE Len(fs) + 1

\* The frame of each payload that is not empty, written out.
ExpectedFrame ==
    { <<JObj(<<<<"content", "a">>>>), "data: {\"content\": \"a\"}\n\n">>,
      <<JObj(<<<<"content", "b">>>>), "data: {\"content\": \"b\"}\n\n">> }

\* One frame per "message" event with a payload that is not empty, in order.
RECURSIVE MessageFrames(_)
MessageFrames(q) ==
    IF q = <<>> THEN <<>>
    ELSE (IF q[1].type = "message" /\ q[1].data \notin {JNull, JObj(<<>>), JStr("")}
          THEN <<(CHOOSE p \in ExpectedFrame : p[1] = q[1].data)[2]>>
          ELSE <<>>)
         \o MessageFrames(Tail(q))

\* C1: the frames emitted before the first "done" event are, in provider
\* order, one frame data: <json>\n\n per "message" event whose payload is
\* not empty; a "message" event with an empty or absent payload gives no
\* frame and does not end the stream.
C1_MessageFrames ==
    \A r \in Requests : Streaming(r) =>
        /\ SubSeq(frames[r], 1, FirstDoneFrame(frames[r]) - 1)
             = MessageFrames(SubSeq(Consumed(r), 1, FirstDone(Consumed(r)) - 1))
        /\ ( /\ pos[r] > 0
             /\ pos[r] < Len(provider[r].events)
             /\ FirstDone(Consumed(r)) > pos[r] ) => pc[r] = "iterating"

\* C1 witness: a message, a message with an empty payload and another
\* message were consumed and gave the first and the third frame.
C1_Witness ==
    /\ Streaming("r1")
    /\ pos["r1"] = 3
    /\ provider["r1"].events[1].data = JObj(<<<<"content", "b">>>>)
    /\ provider["r1"].events[2] = [type |-> "message", data |-> JObj(<<>>)]
    /\ provider["r1"].events[3].data = JObj(<<<<"content", "a">>>>)
    /\ frames["r1"] = << "data: {\"content\": \"b\"}\n\n",
                         "data: {\"content\": \"a\"}\n\n" >>

DoneFrames(r) == { i \in 1..Len(frames[r]) : frames[r][i] = DoneFrame }

C2_DoneIsLast ==
    \A r \in Requests : Streaming(r) =>
        /\ Cardinality(DoneFrames(r)) <= 1
        /\ DoneFrames(r) \subseteq {Len(frames[r])}
        /\ DoneFrames(r) # {} <=> FirstDone(Consumed(r)) <= pos[r]
        /\ DoneFrames(r) # {} => pc[r] = "closed"

C2_NothingAfterDone ==
    \A r \in Requests :
        (Streaming(r) /\ DoneFrames(r) # {}) =>
            /\ frames'[r] = frames[r]
            /\ pos'[r] = pos[r]

\* C2: on a "done" event the relay emits data: [DONE]\n\n and stops: [DONE]
\* is emitted at most once, no frame follows it and no further provider
\* event is consumed, also when the provider's sequence has more events.
C2_DoneStops == [] C2_DoneIsLast /\ [][C2_NothingAfterDone]_vars

\* C2 witness: [DONE] was emitted for a "done" event that is not the last
\* event of the provider's sequence.
C2_Witness ==
    /\ Streaming("r1")
    /\ pc["r1"] = "closed"
    /\ pos["r1"] < Len(provider["r1"].events)
    /\ provider["r1"].events[pos["r1"] + 1].type = "message"
    /\ frames["r1"] # <<>>
    /\ frames["r1"][Len(frames["r1"])] = DoneFrame

\* C3: whenever the body of a streaming response whose provider sequence
\* ended without raising is complete, its last frame is the one [DONE].
C3_EndsWithDone ==
    \A r \in Requests :
        (Streaming(r) /\ pc[r] = "closed") =>
            /\ frames[r] # <<>>
            /\ frames[r][Len(frames[r])] = DoneFrame
            /\ Cardinality(DoneFrames(r)) = 1

\* The request got past validation.
Accepted(r) == pc[r] \notin {"idle", "received"} /\ ValidationErrors(body[r]) = <<>>

\* stream is false in the body, or left out of it.
NotStreamed(r) == "stream" \in DOMAIN body[r].json => ~body[r].json.stream

\* C4: a request with stream false (or without stream) has chat_completion
\* invoked exactly once, chat_completion_stream never, no SSE frame, and the
\* provider's result as the body of a 200 response; a request with stream
\* true never has chat_completion invoked.
C4_ModeSelection ==
    \A r \in Requests : Accepted(r) =>
        /\ NotStreamed(r) =>
             /\ calls[r].stream = 0
             /\ frames[r] = <<>>
             /\ pc[r] \in {"endpoint", "await", "done"}
             /\ pc[r] = "endpoint" => calls[r].single = 0
             /\ pc[r] \in {"await", "done"} =>
                  /\ calls[r].single = 1
                  /\ provider[r] \in SingleShotOutcomes
             /\ (pc[r] = "done" /\ provider[r].kind = "return") =>
                  response[r] = [kind |-> "json", status |-> 200,
                                 content |-> provider[r].result]
        /\ ~NotStreamed(r) =>
             /\ calls[r].single = 0
             /\ calls[r].stream <= 1
             /\ pc[r] \notin {"await", "done"}

\* C4 witness: a request without stream was answered 200 with the second
\* completion.
C4_Witness ==
    /\ pc["r1"] = "done"
    /\ "stream" \notin DOMAIN body["r1"].json
    /\ response["r1"].kind = "json"
    /\ response["r1"].status = 200
    /\ response["r1"].content.id = "chatcmpl-2"

\* What str(e) is for the exceptions the provider raises.
ExpectedStr ==
    { <<PlainException("ValueError", "boom"), "boom">>,
      <<PlainException("RuntimeError", ""), "">>,
      <<HTTPException(503, "upstream unavailable"), "503: upstream unavailable">>,
      <<NotFoundException("patient does not exist"), "404: patient does not exist">>,
      <<ValidationException("bad age", "age"), "422: bad age">>,
      <<ConflictException("already there"), "409: already there">>,
      <<BusinessException("BusinessException", 400, "bad patient", None, "patient_id"),
        "400: bad patient">> }

\* C5: an exception raised in a chat endpoint before the response has
\* started is answered with a 500 envelope: success false, status_code 500,
\* error INTERNAL_SERVER_ERROR, the exception's string form as the message,
\* and no SSE frame.
C5_EndpointFailure ==
    \A r \in Requests :
        (pc[r] = "done" /\ provider[r].kind = "raise") =>
            /\ response[r].kind = "json_error"
            /\ response[r].status = 500
            /\ response[r].content.success = FALSE
            /\ response[r].content.status_code = 500
            /\ response[r].content.error = "INTERNAL_SERVER_ERROR"
            /\ \E p \in ExpectedStr :
                 /\ p[1] = provider[r].exc
                 /\ response[r].content.message = p[2]
            /\ frames[r] = <<>>

\* C5 witness: a NotFoundException raised by chat_completion was answered.
C5_Witness ==
    /\ pc["r1"] = "done"
    /\ provider["r1"].kind = "raise"
    /\ provider["r1"].exc.cls = "NotFoundException"
    /\ response["r1"].status = 500

\* The body names an empty model or an empty messages list.
EmptyModelOrMessages(r) ==
    \/ ("model" \in DOMAIN body[r].json /\ body[r].json.model = "")
    \/ ("messages" \in DOMAIN body[r].json /\ body[r].json.messages = <<>>)

\* C7: a request whose model is the empty string or whose messages is an
\* empty sequence never reaches chat_completion or chat_completion_stream
\* and is answered with a validation failure.
C7_EmptyRejected ==
    \A r \in Requests :
        (pc[r] # "idle" /\ EmptyModelOrMessages(r)) =>
            /\ calls[r] = NoCalls
            /\ pc[r] = "done" =>
                 /\ response[r].kind = "json_error"
                 /\ response[r].status = 422

(***************************************************************************)
(* Claims checked under SpecConc: two requests, any interleaving.          *)
(***************************************************************************)

\* The request is over: its response is complete and get_db ran to its end.
Finished(r) == pc[r] \in {"closed", "aborted", "done"} /\ exited[r]

\* How the request came to its end.
ExitPath(r) ==
    CASE pc[r] = "aborted" -> "stream raised"
      [] pc[r] = "closed" -> "stream returned"
      [] pc[r] = "done" /\ response[r].kind = "json" -> "returned"
      [] pc[r] = "done" /\ provider[r].kind = "raise" -> "provider raised"
      [] pc[r] = "done" /\ response[r].status = 422 -> "rejected"
      [] OTHER -> "running"

\* C11: every request is given a session of its own, no two requests hold
\* the same session, close() is called on no session twice, and when a
\* request is over, however it ended, close() was called on its session
\* once; a request whose response is complete and whose session is not
\* released yet can always release it.
C11_SessionPerRequest ==
    /\ Len(sessions) = Cardinality({r \in Requests : db[r] # 0})
    /\ \A r \in Requests :
          /\ db[r] \in 0..Len(sessions)
          /\ db[r] = 0 <=> pc[r] \in {"idle", "received"}
          /\ \A q \in Requests \ {r} : db[r] # 0 => db[q] # db[r]
          /\ Finished(r) => sessions[db[r]].closes = 1
          /\ db[r] # 0 /\ ~exited[r] => sessions[db[r]].closes = 0
          /\ pc[r] \in {"closed", "aborted", "done"} /\ ~exited[r]
                => ENABLED get_db_exit(r)
    /\ \A i \in 1..Len(sessions) : sessions[i].closes <= 1

\* Both requests are over, one after its stream raised and one after its
\* request was rejected, and each session was closed.
C11_Witness ==
    /\ \A r \in Requests : Finished(r)
    /\ {ExitPath(r) : r \in Requests} = {"stream raised", "rejected"}
    /\ \A i \in 1..Len(sessions) : sessions[i].closes = 1

\* The provider events whose loop turn generate() has finished.
Handled(r) == SubSeq(provider[r].events, 1, pos[r] - Len(held[r]))

\* The frames generate() yields when it runs alone over the events q, up to
\* the event it breaks on.
RECURSIVE generate_alone(_)
generate_alone(q) ==
    IF q = <<>> THEN <<>>
    ELSE Yielded(q[1]) \o (IF Breaks(q[1]) THEN <<>> ELSE generate_alone(Tail(q)))

\* C13: with two requests interleaving at their suspension points, the
\* frames of a streaming request are those generate() yields alone over the
\* request's own events handled so far, the event it holds is its own and
\* it holds at most one; a request that does not stream has no frames and
\* answers with its own provider's completion.
C13_Isolation ==
    \A r \in Requests :
        /\ Len(held[r]) <= 1
        /\ Streaming(r) =>
              /\ frames[r] = generate_alone(Handled(r))
              /\ held[r] # <<>> => held[r][1] = provider[r].events[pos[r]]
        /\ ~Streaming(r) => frames[r] = <<>> /\ held[r] = <<>>
        /\ pc[r] = "done" /\ provider[r].kind = "return"
              => response[r].content = provider[r].result

\* C13 witness: both requests are in their stream loops over different
\* events, each with a frame of its own in its body, and one of them holds
\* its next event.
C13_Witness ==
    /\ pc["r1"] = "iterating" /\ pc["r2"] = "iterating"
    /\ provider["r1"].events # provider["r2"].events
    /\ frames["r1"] = << "data: {\"content\": \"a\"}\n\n" >>
    /\ frames["r2"] = << "data: {\"content\": \"b\"}\n\n" >>
    /\ held["r1"] = << [type |-> "message", data |-> JObj(<<<<"content", "b">>>>)] >>
    /\ held["r2"] = <<>>

(***************************************************************************)
(* Claims about failures, checked under Spec.                              *)
(***************************************************************************)

\* The provider's stream raised: every event it gave before was consumed,
\* none of them a done event, and the body is over.
StreamFailed(r) ==
    /\ Streaming(r)
    /\ provider[r].ending = "raise"
    /\ pc[r] \in {"closed", "aborted"}
    /\ pos[r] = Len(provider[r].events)
    /\ FirstDone(provider[r].events) > Len(provider[r].events)

\* C12: when the provider's stream raises after the streaming response has
\* started, the body is cut off: its frames are the frames of the events
\* consumed before the failure, none of them [DONE] and none an error
\* frame, and the response stays the started 200 stream, never an HTTP 500
\* from the endpoint's `except Exception`.
C12_StreamFailure ==
    \A r \in Requests : StreamFailed(r) =>
        /\ pc[r] = "aborted"
        /\ frames[r] = MessageFrames(provider[r].events)
        /\ DoneFrames(r) = {}
        /\ response[r] = StreamingResponse
        /\ response[r].status = 200 /\ response[r].kind # "json_error"

\* C12 witness: the stream raised after two message events, and the body
\* holds their two frames and nothing else.
C12_Witness ==
    /\ StreamFailed("r1")
    /\ Len(provider["r1"].events) = 2
    /\ provider["r1"].exc = PlainException("ValueError", "boom")
    /\ frames["r1"] = << "data: {\"content\": \"a\"}\n\n",
                         "data: {\"content\": \"b\"}\n\n" >>
    /\ response["r1"].status = 200

\* The provider's call raised a BusinessException before any response.
BusinessFailure(r) ==
    /\ pc[r] = "done"
    /\ provider[r].kind = "raise"
    /\ isinstance(provider[r].exc, "BusinessException")

\* C14: without streaming, a BusinessException of the provider's call never
\* reaches the client as itself: the response is a 500 with error
\* INTERNAL_SERVER_ERROR and an empty details list, its message is
\* "<status>: <detail>" of the exception, so that the exception's own
\* status, error_code and field are not the response's.
C14_BusinessMasked ==
    \A r \in Requests : BusinessFailure(r) =>
        /\ response[r].kind = "json_error"
        /\ response[r].status = 500
        /\ response[r].content.status_code = 500
        /\ response[r].content.error = "INTERNAL_SERVER_ERROR"
        /\ response[r].content.details = <<>>
        /\ response[r].content.message =
             ToString(provider[r].exc.status_code) \o ": " \o provider[r].exc.detail

\* C14 witness: the provider raised NotFoundException (404, NOT_FOUND) and
\* the client got the 500.
C14_Witness ==
    /\ BusinessFailure("r1")
    /\ provider["r1"].exc = NotFoundException("patient does not exist")
    /\ provider["r1"].exc.status_code = 404
    /\ provider["r1"].exc.error_code = "NOT_FOUND"
    /\ response["r1"].status = 500
    /\ response["r1"].content.message = "404: patient does not exist"

(***************************************************************************)
(* The envelope of all three handlers, checked under SpecHandlers.         *)
(***************************************************************************)

\* The values an ErrorDetail can be.
ErrorDetails == [type : STRING, message : STRING, field : STRING, code : STRING]

\* C15: whichever of the three handlers answered, the response is a JSON
\* envelope with success false, a status_code equal to the HTTP status, a
\* details list (empty when there is nothing to list, never null), the path
\* of the failing request and no request_id, and it is what
\* create_error_response builds from its error, message and details.
C15_EnvelopeShape ==
    handler # "" =>
        /\ hresponse.kind = "json_error"
        /\ Envelope.success = FALSE
        /\ Envelope.status_code = hresponse.status
        /\ Envelope.details \in Seq(ErrorDetails)
        /\ Envelope.path = hrequest.path
        /\ Envelope.request_id = None
        /\ Envelope = create_error_response(hrequest, hresponse.status,
               Envelope.error, Envelope.message, Some(Envelope.details), None)

\* C15 witness: the general handler answered a plain exception for a
\* request to /colposcopy with a 500 envelope of that path and no details.
C15_Witness ==
    /\ handler = "general_exception_handler"
    /\ exc = PlainException("ValueError", "boom")
    /\ hrequest.path = "/api/v1/colposcopy"
    /\ hresponse.status = 500
    /\ Envelope.status_code = 500
    /\ Envelope.path = "/api/v1/colposcopy"
    /\ Envelope.details = <<>>
    /\ Envelope.request_id = None
====
